---- MODULE Spec2Model ----
(***************************************************************************)
(* Fruit Jam NTP helper (adafruit_fruitjam/ntp.py): sync_time,             *)
(* release_pins and setup_ntp over the cached hardware handles of _State,  *)
(* the radio link, the settings.toml environment and the hardware clock.   *)
(*                                                                         *)
(* Python values are records [t, v, s]: t is the type ("none", "str",      *)
(* "int", "float"), v the number (a float is kept in tenths) and s the     *)
(* characters of a string.                                                 *)
(***************************************************************************)
EXTENDS Integers, Sequences, FiniteSets, TLC

VARIABLES
    env,        \* settings.toml as os.getenv sees it: name -> Python value
    state,      \* _state: the cached handles spi, cs, rdy, rst, esp, pool
    epoch,      \* number of release_pins calls so far (dates the handles)
    connected,  \* the radio's link status behind esp.is_connected
    rtcval,     \* rtc.RTC().datetime (its year; 2000 is the power-on value)
    pc,         \* position of the running sync_time call, "idle" when none
    caller,     \* who runs sync_time: "none", "user" or "setup_ntp"
    args,       \* the keyword arguments of the running / last sync_time call
    cfg,        \* the configuration sync_time resolved (lines 94-107)
    attempt,    \* loop variable of the connect loop (line 112)
    log,        \* what the running / last sync_time call did, in order
    outcome,    \* how the last sync_time call ended: kind, now, next_sync
    rtcAtCall,  \* the hardware clock when the running / last call began
    stateAtCall, \* _state when the running / last operation began
    setupLog,   \* what setup_ntp did since its last failed sync_time call
    setupRet,   \* what setup_ntp returned
    created,    \* kind -> handles of it acquired since the last release_pins
    setupTries  \* sync_time calls of the running setup_ntp, modulo TriesWrap

vars == <<env, state, epoch, connected, rtcval, pc, caller, args, cfg,
          attempt, log, outcome, rtcAtCall, stateAtCall, setupLog, setupRet,
          created, setupTries>>

----------------------------------------------------------------------------
(* Bounds of the model *)

\* release_pins calls in one run
MaxReleases == 1
\* largest retry count the inputs supply
MaxRetries == 2
\* the calls of one setup_ntp are counted modulo this
TriesWrap == 2
\* acquisitions of one kind are counted up to this
MaxCreated == 2

----------------------------------------------------------------------------
(* Python values *)

PyNone == [t |-> "none", v |-> 0, s |-> <<>>]
PyStr(chars) == [t |-> "str", v |-> 0, s |-> chars]
PyInt(n) == [t |-> "int", v |-> n, s |-> <<>>]
\* a float, given in tenths
PyFloat(tenths) == [t |-> "float", v |-> tenths, s |-> <<>>]

\* the result of a conversion: a value, or an exception
Ok(n) == [ok |-> TRUE, v |-> n]
Err == [ok |-> FALSE, v |-> 0]

Digits == {"0", "1", "2", "3", "4", "5", "6", "7", "8", "9"}

DigitVal(c) ==
    CASE c = "0" -> 0 [] c = "1" -> 1 [] c = "2" -> 2 [] c = "3" -> 3
      [] c = "4" -> 4 [] c = "5" -> 5 [] c = "6" -> 6 [] c = "7" -> 7
      [] c = "8" -> 8 [] c = "9" -> 9

AllDigits(chars) == \A i \in 1..Len(chars) : chars[i] \in Digits

RECURSIVE DecVal(_)
\* the number a digit string denotes
DecVal(chars) ==
    IF chars = <<>> THEN 0
    ELSE 10 * DecVal(SubSeq(chars, 1, Len(chars) - 1)) + DigitVal(chars[Len(chars)])

\* int(str) on an unsigned literal: digits only
ParseUInt(chars) ==
    IF chars /= <<>> /\ AllDigits(chars) THEN Ok(DecVal(chars)) ELSE Err

\* int(str): an optional sign, then digits
ParseInt(chars) ==
    IF chars /= <<>> /\ chars[1] = "-"
    THEN LET r == ParseUInt(Tail(chars)) IN IF r.ok THEN Ok(0 - r.v) ELSE Err
    ELSE ParseUInt(chars)

\* float(str) on an unsigned literal, in tenths: digits, or digits "." digit
ParseUFloat(chars) ==
    LET dots == {i \in 1..Len(chars) : chars[i] = "."} IN
    IF dots = {}
    THEN LET r == ParseUInt(chars) IN IF r.ok THEN Ok(10 * r.v) ELSE Err
    ELSE IF Cardinality(dots) > 1 THEN Err
    ELSE LET d == CHOOSE i \in dots : TRUE
             whole == SubSeq(chars, 1, d - 1)
             frac == SubSeq(chars, d + 1, Len(chars))
         IN IF /\ AllDigits(whole) /\ AllDigits(frac)
               /\ Len(whole) + Len(frac) > 0 /\ Len(frac) <= 1
            THEN Ok(10 * DecVal(whole) + DecVal(frac))
            ELSE Err

\* float(str), in tenths
ParseFloat(chars) ==
    IF chars /= <<>> /\ chars[1] = "-"
    THEN LET r == ParseUFloat(Tail(chars)) IN IF r.ok THEN Ok(0 - r.v) ELSE Err
    ELSE ParseUFloat(chars)

\* truncation toward zero of a number of tenths
Trunc(tenths) == IF tenths >= 0 THEN tenths \div 10 ELSE 0 - ((0 - tenths) \div 10)

\* Python's float(x), in tenths
float(x) ==
    CASE x.t = "none" -> Err
      [] x.t = "str" -> ParseFloat(x.s)
      [] x.t = "int" -> Ok(10 * x.v)
      [] x.t = "float" -> Ok(x.v)

\* Python's int(x)
int(x) ==
    CASE x.t = "none" -> Err
      [] x.t = "str" -> ParseInt(x.s)
      [] x.t = "int" -> Ok(x.v)
      [] x.t = "float" -> Ok(Trunc(x.v))

\* Python's truth value of x
Truthy(x) ==
    CASE x.t = "none" -> FALSE
      [] x.t = "str" -> x.s /= <<>>
      [] x.t = "int" -> x.v /= 0
      [] x.t = "float" -> x.v /= 0

\* Python's "a or b"
PyOr(a, b) == IF Truthy(a) THEN a ELSE b

----------------------------------------------------------------------------
(* Configuration: settings.toml and the arguments of sync_time *)

EnvNames ==
    {"CIRCUITPY_WIFI_SSID", "CIRCUITPY_WIFI_PASSWORD", "NTP_SERVER", "NTP_TZ",
     "NTP_DST", "NTP_TIMEOUT", "NTP_RETRIES", "NTP_DELAY_S",
     "NTP_CACHE_SECONDS", "NTP_INTERVAL"}

TuningKeys == {"timeout", "retries", "retry_delay", "cache_seconds", "require_year"}

\* a key the tuning dict does not hold
Absent == [t |-> "absent", v |-> 0, s |-> <<>>]

EmptyDict == [k \in TuningKeys |-> Absent]

\* sync_time() called with no arguments
NoArgs == [server |-> PyNone, tz_offset |-> PyNone, given |-> FALSE, tuning |-> EmptyDict]

\* the hard-coded defaults of lines 95-107 (floats in tenths)
PoolNtpOrg == <<"p", "o", "o", "l", ".", "n", "t", "p", ".", "o", "r", "g">>
DefaultTz == 0
DefaultDst == 0
DefaultTimeout == 50
DefaultRetries == 2
DefaultRetryDelay == 10
DefaultCacheSeconds == 0
DefaultRequireYear == 2022
DefaultInterval == 0

\* os.getenv(name)
getenv(e, name) == e[name]

\* _env_float(name, default), in tenths; any exception gives the default
env_float(e, name, default) ==
    LET v == getenv(e, name) IN
    IF v /= PyNone /\ v /= PyStr(<<>>)
    THEN LET r == float(v) IN IF r.ok THEN r.v ELSE default
    ELSE default

\* _env_int(name, default); any exception gives the default
env_int(e, name, default) ==
    LET v == getenv(e, name) IN
    IF v /= PyNone /\ v /= PyStr(<<>>)
    THEN LET r == int(v) IN IF r.ok THEN r.v ELSE default
    ELSE default

\* t = tuning or {}
TuningOrEmpty(a) ==
    IF a.given /\ a.tuning /= EmptyDict THEN a.tuning ELSE EmptyDict

\* float(t.get(key, fallback)): the dict's value when it holds the key
TuningFloat(t, key, fallback) ==
    IF t[key] /= Absent THEN float(t[key]) ELSE Ok(fallback)

\* a lookup that never consults the tuning dict
TuningInt_IgnoreDict(t, key, fallback) == Ok(fallback)

\* int(t.get(key, fallback))
TuningInt(t, key, fallback) ==
    IF t[key] /= Absent THEN int(t[key]) ELSE Ok(fallback)

\* server = server or os.getenv("NTP_SERVER") or "pool.ntp.org"
ResolveServer(e, a) ==
    PyOr(PyOr(a.server, getenv(e, "NTP_SERVER")), PyStr(PoolNtpOrg))

\* "tz_offset or NTP_TZ": an explicit 0 is taken for no argument
TzBase_Falsy(e, a) ==
    IF ~Truthy(a.tz_offset)
    THEN Ok(env_float(e, "NTP_TZ", DefaultTz))
    ELSE CASE a.tz_offset.t = "int" -> Ok(10 * a.tz_offset.v)
           [] a.tz_offset.t = "float" -> Ok(a.tz_offset.v)
           [] OTHER -> Err

\* lines 96-97: the explicit tz_offset unless it is None, else NTP_TZ or 0.0
TzBase(e, a) ==
    IF a.tz_offset = PyNone
    THEN Ok(env_float(e, "NTP_TZ", DefaultTz))
    ELSE CASE a.tz_offset.t = "int" -> Ok(10 * a.tz_offset.v)
           [] a.tz_offset.t = "float" -> Ok(a.tz_offset.v)
           [] OTHER -> Err

\* lines 96-98: tz_offset, with NTP_DST always added
ResolveTz(e, a) ==
    LET b == TzBase(e, a) IN
    IF b.ok THEN Ok(b.v + env_float(e, "NTP_DST", DefaultDst)) ELSE Err

ResolveTimeout(e, t) ==
    TuningFloat(t, "timeout", env_float(e, "NTP_TIMEOUT", DefaultTimeout))

ResolveRetries(e, t) ==
    TuningInt(t, "retries", env_int(e, "NTP_RETRIES", DefaultRetries))

ResolveRetryDelay(e, t) ==
    TuningFloat(t, "retry_delay", env_float(e, "NTP_DELAY_S", DefaultRetryDelay))

ResolveCacheSeconds(e, t) ==
    TuningInt(t, "cache_seconds", env_int(e, "NTP_CACHE_SECONDS", DefaultCacheSeconds))

ResolveRequireYear(t) == TuningInt(t, "require_year", DefaultRequireYear)

ResolveInterval(e) == env_int(e, "NTP_INTERVAL", DefaultInterval)

\* the configuration before any call resolved one
NoCfg ==
    [ok |-> FALSE, server |-> PyNone, tz_offset |-> 0, timeout |-> 0,
     retries |-> 0, retry_delay |-> 0, cache_seconds |-> 0,
     require_year |-> 0, interval |-> 0]

\* lines 94-107: ok is FALSE when a conversion raised
ResolveConfig(e, a) ==
    LET t == TuningOrEmpty(a)
        tz == ResolveTz(e, a)
        to == ResolveTimeout(e, t)
        re == ResolveRetries(e, t)
        rd == ResolveRetryDelay(e, t)
        cs == ResolveCacheSeconds(e, t)
        ry == ResolveRequireYear(t)
    IN IF tz.ok /\ to.ok /\ re.ok /\ rd.ok /\ cs.ok /\ ry.ok
       THEN [ok |-> TRUE, server |-> ResolveServer(e, a), tz_offset |-> tz.v,
             timeout |-> to.v, retries |-> re.v, retry_delay |-> rd.v,
             cache_seconds |-> cs.v, require_year |-> ry.v,
             interval |-> ResolveInterval(e)]
       ELSE NoCfg

----------------------------------------------------------------------------
(* Inputs *)

\* values a credential can have in settings.toml: unset, empty, present
CredVals == {PyNone, PyStr(<<>>), PyStr(<<"w">>)}

\* years the time server can answer with
Years == {2021, 2022, 2025, 2030}

\* readings of time.time()
Times == {1000, 2000}

\* years the hardware clock can hold at power-on
PowerOnYears == {2000}

\* retry counts a caller passes in tuning
RetryVals == {0 - 1, 0, MaxRetries}

\* the tuning dicts of the orchestration runs: retries and require_year
SpecTunings ==
    {[EmptyDict EXCEPT !["retries"] = r, !["require_year"] = y] :
        r \in {Absent} \cup {PyInt(n) : n \in RetryVals},
        y \in {Absent, PyInt(2030)}}

\* the calls of the orchestration runs
SpecArgs ==
    {[server |-> PyNone, tz_offset |-> PyNone, given |-> TRUE, tuning |-> t] :
        t \in SpecTunings \ {EmptyDict}} \cup {NoArgs}

\* settings.toml with nothing set
EnvUnset == [n \in EnvNames |-> PyNone]

\* settings.toml with both credentials present
EnvCreds ==
    [EnvUnset EXCEPT !["CIRCUITPY_WIFI_SSID"] = PyStr(<<"w">>),
                     !["CIRCUITPY_WIFI_PASSWORD"] = PyStr(<<"w">>)]

\* the settings of the orchestration runs: every credential combination, and
\* with credentials present NTP_RETRIES set or unset and NTP_INTERVAL unset,
\* 0 or positive
SpecEnvs ==
    {[EnvUnset EXCEPT !["CIRCUITPY_WIFI_SSID"] = s,
                      !["CIRCUITPY_WIFI_PASSWORD"] = p] :
        s \in CredVals, p \in CredVals}
    \cup
    {[EnvCreds EXCEPT !["NTP_RETRIES"] = ri[1], !["NTP_INTERVAL"] = ri[2]] :
        ri \in {<<PyNone, PyNone>>, <<PyStr(<<"1">>), PyInt(0)>>,
                <<PyNone, PyInt(60)>>}}

\* values of a numeric setting: unset, empty, an integer literal, a decimal
\* literal, not a number
EnvNumVals ==
    {PyNone, PyStr(<<>>), PyStr(<<"3">>), PyStr(<<"2", ".", "5">>), PyStr(<<"x">>)}

\* the settings of the configuration runs
ConfigEnvs ==
    {[EnvCreds EXCEPT !["NTP_TIMEOUT"] = a, !["NTP_RETRIES"] = b,
                      !["NTP_DELAY_S"] = c, !["NTP_CACHE_SECONDS"] = d,
                      !["NTP_TZ"] = z, !["NTP_DST"] = x] :
        a \in EnvNumVals, b \in EnvNumVals, c \in EnvNumVals, d \in EnvNumVals,
        z \in {PyNone, PyStr(<<"-", "5">>), PyStr(<<"x">>)},
        x \in {PyNone, PyStr(<<"1">>), PyStr(<<"x">>)}}

\* the tuning dicts of the configuration runs: each key supplied or not
ConfigTunings ==
    {[EmptyDict EXCEPT !["timeout"] = a, !["retries"] = b,
                       !["retry_delay"] = c, !["cache_seconds"] = d] :
        a \in {Absent, PyFloat(25)}, b \in {Absent, PyInt(1)},
        c \in {Absent, PyInt(4)}, d \in {Absent, PyInt(60)}}

\* the calls of the configuration runs
ConfigArgs ==
    {[server |-> PyNone, tz_offset |-> z, given |-> t /= EmptyDict, tuning |-> t] :
        z \in {PyNone, PyInt(0), PyFloat(0 - 35)}, t \in ConfigTunings}

----------------------------------------------------------------------------
(* State *)

\* _State.__init__: no handle cached (0 is None)
NoEsp == [id |-> 0, spi |-> 0, cs |-> 0, rdy |-> 0, rst |-> 0]
NoPool == [id |-> 0, esp |-> 0]
NoState == [spi |-> 0, cs |-> 0, rdy |-> 0, rst |-> 0, esp |-> NoEsp, pool |-> NoPool]

NoOutcome == [kind |-> "none", now |-> 0, next_sync |-> 0 - 1]
NoRet == [set |-> FALSE, now |-> 0, next_sync |-> 0 - 1]

\* one thing an operation did
Ev(op, arg) == [op |-> op, arg |-> arg]

InitWith(envs) ==
    /\ env \in envs
    /\ state = NoState
    /\ epoch = 0
    /\ connected = FALSE
    /\ rtcval \in PowerOnYears
    /\ pc = "idle"
    /\ caller = "none"
    /\ args = NoArgs
    /\ cfg = NoCfg
    /\ attempt = 0
    /\ log = <<>>
    /\ outcome = NoOutcome
    /\ rtcAtCall = rtcval
    /\ stateAtCall = NoState
    /\ setupLog = <<>>
    /\ setupRet = NoRet
    /\ created = [k \in {"spi", "cs", "rdy", "rst", "esp", "pool"} |-> 0]
    /\ setupTries = 0

Init == InitWith(SpecEnvs)

InitConfig == InitWith(ConfigEnvs)

\* lines 94-107 alone: resolve the configuration of the run's one call
ResolveStep ==
    /\ pc = "idle"
    /\ ~cfg.ok
    /\ \E a \in ConfigArgs :
        /\ args' = a
        /\ cfg' = ResolveConfig(env, a)
    /\ UNCHANGED <<env, state, epoch, connected, rtcval, pc, caller, attempt,
                   log, outcome, rtcAtCall, stateAtCall, setupLog, setupRet,
                   created, setupTries>>

NextConfig == ResolveStep

SpecConfig == InitConfig /\ [][NextConfig]_vars

----------------------------------------------------------------------------
(* sync_time *)

\* sync_time raises: the exception leaves the call
Raise(kind) ==
    /\ pc' = "raised"
    /\ outcome' = [kind |-> kind, now |-> 0, next_sync |-> 0 - 1]

\* a credential check that takes an empty string for a credential
HaveCreds_NoneOnly(e) ==
    /\ getenv(e, "CIRCUITPY_WIFI_SSID") /= PyNone
    /\ getenv(e, "CIRCUITPY_WIFI_PASSWORD") /= PyNone

\* lines 88-92: both credentials present and non-empty
HaveCreds(e) ==
    /\ Truthy(getenv(e, "CIRCUITPY_WIFI_SSID"))
    /\ Truthy(getenv(e, "CIRCUITPY_WIFI_PASSWORD"))

\* lines 88-107: the credential check and the configuration; on to
\* _ensure_radio when both pass
SyncTimeEntry(a) ==
    /\ args' = a
    /\ log' = <<>>
    /\ attempt' = 0
    /\ rtcAtCall' = rtcval
    /\ stateAtCall' = state
    /\ IF ~HaveCreds(env)
       THEN /\ Raise("ConfigError")
            /\ cfg' = NoCfg
       ELSE /\ cfg' = ResolveConfig(env, a)
            /\ IF cfg'.ok
               THEN /\ pc' = "ensure"
                    /\ outcome' = NoOutcome
               ELSE Raise("ValueError")
    /\ UNCHANGED <<env, state, epoch, connected, rtcval, created>>

\* a caller other than setup_ntp calls sync_time
CallSyncTime ==
    /\ pc = "idle"
    /\ caller' = "user"
    /\ setupLog' = <<>>
    /\ setupRet' = NoRet
    /\ setupTries' = 0
    /\ \E a \in SpecArgs : SyncTimeEntry(a)

\* the handles _ensure_radio acquires, in the order of lines 42-56
Kinds == <<"spi", "cs", "rdy", "rst", "esp", "pool">>

\* a radio and a pool that are never found in _state
Unset_RadioAlways(st, k) ==
    CASE k \in {"esp", "pool"} -> TRUE
      [] OTHER -> st[k] = 0

\* control lines and a bus that are never found in _state
Unset_LinesAlways(st, k) ==
    CASE k = "esp" -> st.esp = NoEsp
      [] k = "pool" -> st.pool = NoPool
      [] OTHER -> TRUE

\* whether _state holds no handle of kind k
Unset(st, k) ==
    CASE k = "esp" -> st.esp = NoEsp
      [] k = "pool" -> st.pool = NoPool
      [] OTHER -> st[k] = 0

\* line 39: both the radio and the pool are cached
HaveRadio(st) == ~Unset(st, "esp") /\ ~Unset(st, "pool")

\* one of lines 42-56: acquire kind k when _state holds none; a handle is
\* dated by the number of release_pins calls before it
Acquire(st, k) ==
    IF ~Unset(st, k) THEN st
    ELSE CASE k = "esp" ->
                [st EXCEPT !.esp = [id |-> epoch + 1, spi |-> st.spi, cs |-> st.cs,
                                    rdy |-> st.rdy, rst |-> st.rst]]
           [] k = "pool" ->
                [st EXCEPT !.pool = [id |-> epoch + 1, esp |-> st.esp.id]]
           [] OTHER -> [st EXCEPT ![k] = epoch + 1]

RECURSIVE AcquireUpTo(_, _)
\* lines 42-56 for the first n kinds
AcquireUpTo(st, n) ==
    IF n = 0 THEN st ELSE Acquire(AcquireUpTo(st, n - 1), Kinds[n])

\* the acquisitions that AcquireUpTo(st, n) performs, as log entries
AcquiredEvents(st, n) ==
    LET missing == {i \in 1..n : Unset(st, Kinds[i])}
        F[i \in 0..n] ==
            IF i = 0 THEN <<>>
            ELSE IF i \in missing THEN Append(F[i - 1], Ev(Kinds[i], epoch + 1))
            ELSE F[i - 1]
    IN F[n]

\* the count of acquisitions, with those of the log entries evs added
Counted(c, evs) ==
    [k \in DOMAIN c |->
        LET n == c[k] + Cardinality({i \in DOMAIN evs : evs[i].op = k})
        IN IF n < MaxCreated THEN n ELSE MaxCreated]

\* the connect loop of line 112 starts, or is skipped when range() is empty
LoopEntry(c) == IF c.retries + 1 > 0 THEN "connect" ELSE "fetch"

\* _ensure_radio (lines 38-58), called at line 109: a constructor may raise
EnsureRadio ==
    /\ pc = "ensure"
    /\ \/ \* every missing handle is acquired, or both are cached already
          /\ state' = IF HaveRadio(state) THEN state ELSE AcquireUpTo(state, Len(Kinds))
          /\ log' = IF HaveRadio(state) THEN log
                    ELSE log \o AcquiredEvents(state, Len(Kinds))
          /\ created' = IF HaveRadio(state) THEN created
                        ELSE Counted(created, AcquiredEvents(state, Len(Kinds)))
          /\ pc' = LoopEntry(cfg)
          /\ UNCHANGED outcome
       \/ \* the constructor of a missing kind raises
          /\ ~HaveRadio(state)
          /\ \E i \in 1..Len(Kinds) :
                /\ Unset(state, Kinds[i])
                /\ state' = AcquireUpTo(state, i - 1)
                /\ log' = Append(log \o AcquiredEvents(state, i - 1),
                                 Ev("create_fail", i))
                /\ created' = Counted(created, AcquiredEvents(state, i - 1))
          /\ Raise("HardwareError")
    /\ UNCHANGED <<env, epoch, connected, rtcval, caller, args, cfg, attempt,
                   rtcAtCall, stateAtCall, setupLog, setupRet, setupTries>>

\* a last-attempt test that is one attempt late
LastAttempt_OneLate(a, c) == a > c.retries

\* line 118: no attempt is left after attempt a
LastAttempt(a, c) == a >= c.retries

\* a failure handler that forgets the reset
FailedAttemptEvents_NoReset(a, r, c) ==
    <<Ev("connect_fail", a), Ev("sleep", c.retry_delay)>>

\* a failure handler that sleeps before it resets
FailedAttemptEvents_SleepFirst(a, r, c) ==
    <<Ev("connect_fail", a), Ev("sleep", c.retry_delay), Ev(r, a)>>

\* lines 117-124 on a failure that is not the last: the reset (r is how it
\* ended, its exception is dropped) and the sleep
FailedAttemptEvents(a, r, c) ==
    <<Ev("connect_fail", a), Ev(r, a), Ev("sleep", c.retry_delay)>>

\* line 112: after attempt a, the next pass of the loop or its end
LoopNext(a, c) == IF a + 1 < c.retries + 1 THEN "connect" ELSE "fetch"

\* a connect_AP call made although the radio is connected
AlreadyConnectedEvents_ConnectAnyway(a) ==
    <<Ev("is_connected", a), Ev("connect_ok", a)>>

\* line 114 with the radio connected: connect_AP is not called
AlreadyConnectedEvents(a) == <<Ev("is_connected", a)>>

\* a reset whose exception is let out of the handler
ResetRaises_Propagates(r) == r = "reset_fail"

\* lines 120-123: whether an exception of esp.reset() leaves the handler
ResetRaises(r) == FALSE

\* one iteration of the connect loop (lines 112-124)
ConnectAttempt ==
    /\ pc = "connect"
    /\ \/ \* line 114: already connected; line 116: break
          /\ connected
          /\ log' = log \o AlreadyConnectedEvents(attempt)
          /\ pc' = "fetch"
          /\ UNCHANGED <<connected, attempt, outcome>>
       \/ \* line 115: connect_AP returns; line 116: break
          /\ ~connected
          /\ connected' = TRUE
          /\ log' = Append(log, Ev("connect_ok", attempt))
          /\ pc' = "fetch"
          /\ UNCHANGED <<attempt, outcome>>
       \/ \* line 115 raises on the last attempt; line 119: raise
          /\ ~connected
          /\ LastAttempt(attempt, cfg)
          /\ log' = Append(log, Ev("connect_fail", attempt))
          /\ Raise("ConnectError")
          /\ UNCHANGED <<connected, attempt>>
       \/ \* line 115 raises earlier: reset, sleep, next pass
          /\ ~connected
          /\ ~LastAttempt(attempt, cfg)
          /\ \E r \in {"reset_ok", "reset_fail"} :
                IF ResetRaises(r)
                THEN /\ log' = log \o <<Ev("connect_fail", attempt), Ev(r, attempt)>>
                     /\ Raise("ResetError")
                     /\ UNCHANGED attempt
                ELSE /\ log' = log \o FailedAttemptEvents(attempt, r, cfg)
                     /\ attempt' = attempt + 1
                     /\ pc' = LoopNext(attempt, cfg)
                     /\ UNCHANGED outcome
          /\ UNCHANGED connected
    /\ UNCHANGED <<env, state, epoch, rtcval, caller, args, cfg, rtcAtCall,
                   stateAtCall, setupLog, setupRet, created, setupTries>>

\* a sanity check that lets every year through
YearOk_Unchecked(year, c) == TRUE

\* line 135: the sanity check on the fetched year
YearOk(year, c) == ~(year < c.require_year)

\* a next_sync computed whatever the interval is
NextSync_Always(t, c) == t + c.interval

\* line 139: next_sync, with -1 for None
NextSync(t, c) == IF c.interval > 0 THEN t + c.interval ELSE 0 - 1

\* a fetch that is tried once more after it raised
FetchFailEvents_Retry(c) ==
    <<Ev("ntp", c.tz_offset), Ev("fetch_fail", 0), Ev("fetch_fail", 0)>>

\* lines 126-134 when the client or the fetch raises: nothing catches it
FetchFailEvents(c) == <<Ev("ntp", c.tz_offset), Ev("fetch_fail", 0)>>

\* lines 126-140: the client, the fetch, the check, the clock, the result
FetchAndSet ==
    /\ pc = "fetch"
    /\ \/ \* the client or the fetch raises
          /\ log' = log \o FetchFailEvents(cfg)
          /\ Raise("FetchError")
          /\ UNCHANGED rtcval
       \/ \E year \in Years, t \in Times :
            IF YearOk(year, cfg)
            THEN /\ rtcval' = year
                 /\ log' = log \o <<Ev("ntp", cfg.tz_offset), Ev("fetch", year),
                                    Ev("rtc_write", year)>>
                                \o (IF cfg.interval > 0 THEN <<Ev("time", t)>> ELSE <<>>)
                 /\ pc' = "returned"
                 /\ outcome' = [kind |-> "ok", now |-> year,
                                next_sync |-> NextSync(t, cfg)]
            ELSE /\ log' = log \o <<Ev("ntp", cfg.tz_offset), Ev("fetch", year)>>
                 /\ Raise("ValidationError")
                 /\ UNCHANGED rtcval
    /\ UNCHANGED <<env, state, epoch, connected, caller, args, cfg, attempt,
                   rtcAtCall, stateAtCall, setupLog, setupRet, created,
                   setupTries>>

\* the locals of a call that is over
CallOver ==
    /\ args' = NoArgs
    /\ cfg' = NoCfg
    /\ attempt' = 0
    /\ log' = <<>>
    /\ outcome' = NoOutcome
    /\ rtcAtCall' = rtcval
    /\ stateAtCall' = state

\* the call is over for a caller other than setup_ntp, which has the result
UserDone ==
    /\ pc \in {"raised", "returned"}
    /\ caller = "user"
    /\ pc' = "idle"
    /\ caller' = "none"
    /\ CallOver
    /\ UNCHANGED <<env, state, epoch, connected, rtcval, setupLog, setupRet,
                   created, setupTries>>

\* the access point drops or picks up the link by itself
RadioLink ==
    /\ pc \in {"idle", "connect"}
    /\ connected' = ~connected
    /\ UNCHANGED <<env, state, epoch, rtcval, pc, caller, args, cfg, attempt,
                   log, outcome, rtcAtCall, stateAtCall, setupLog, setupRet,
                   created, setupTries>>

\* settings.toml is edited between calls: os.getenv (lines 89-90) reads the
\* credentials anew in every call
EditSettings ==
    /\ pc = "idle"
    /\ \E s \in CredVals, p \in CredVals :
        env' = [env EXCEPT !["CIRCUITPY_WIFI_SSID"] = s,
                           !["CIRCUITPY_WIFI_PASSWORD"] = p]
    /\ UNCHANGED <<state, epoch, connected, rtcval, pc, caller, args, cfg,
                   attempt, log, outcome, rtcAtCall, stateAtCall, setupLog,
                   setupRet, created, setupTries>>

----------------------------------------------------------------------------
(* release_pins *)

\* the control lines release_pins walks, in the order of line 146
Pins == <<"cs", "rdy", "rst">>

\* the control lines _state holds (line 147)
HeldPins(st) == {i \in 1..Len(Pins) : st[Pins[i]] /= 0}

\* the first held control line whose deinit raises, Len(Pins) + 1 when none
FirstFailure(st, failing) ==
    LET bad == HeldPins(st) \cap failing IN
    IF bad = {} THEN Len(Pins) + 1
    ELSE CHOOSE i \in bad : \A j \in bad : i <= j

\* the control lines the loop of lines 146-148 calls deinit on: an
\* exception raised by a deinit leaves the loop
DeinitCalled(st, failing) ==
    {i \in HeldPins(st) : i <= FirstFailure(st, failing)}

\* the deinit calls of lines 146-148 as log entries
DeinitEvents(st, failing) ==
    LET called == DeinitCalled(st, failing)
        F[i \in 0..Len(Pins)] ==
            IF i = 0 THEN <<>>
            ELSE IF i \in called
                 THEN Append(F[i - 1],
                             Ev(IF i \in failing THEN "deinit_fail" ELSE "deinit_ok", i))
                 ELSE F[i - 1]
    IN F[Len(Pins)]

\* a finally clause that leaves the radio and the pool cached
ClearedState_KeepRadio(st) == [NoState EXCEPT !.esp = st.esp, !.pool = st.pool]

\* a finally clause that leaves the SPI handle cached
ClearedState_KeepSpi(st) == [NoState EXCEPT !.spi = st.spi]

\* line 150, the finally clause
ClearedState(st) == NoState

\* release_pins (lines 143-150); failing: the control lines whose deinit raises
ReleasePins ==
    /\ pc = "idle"
    /\ epoch < MaxReleases
    /\ \E failing \in SUBSET HeldPins(state) :
        /\ log' = DeinitEvents(state, failing)
        /\ outcome' = [kind |-> IF failing = {} THEN "released" ELSE "DeinitError",
                       now |-> 0, next_sync |-> 0 - 1]
    /\ state' = ClearedState(state)
    /\ epoch' = epoch + 1
    /\ args' = NoArgs
    /\ cfg' = NoCfg
    /\ attempt' = 0
    /\ rtcAtCall' = rtcval
    /\ stateAtCall' = state
    /\ setupLog' = <<>>
    /\ setupRet' = NoRet
    /\ created' = [k \in DOMAIN created |-> 0]
    /\ UNCHANGED <<env, connected, rtcval, pc, caller, setupTries>>

----------------------------------------------------------------------------
(* setup_ntp *)

\* time.sleep(1) of line 162, in tenths
SetupSleep == 10

\* lines 155-158: the first pass of the loop
SetupNtp ==
    /\ pc = "idle"
    /\ caller' = "setup_ntp"
    /\ setupLog' = <<Ev("print", 0), Ev("sync_time", 0)>>
    /\ setupRet' = NoRet
    /\ setupTries' = 1 % TriesWrap
    /\ SyncTimeEntry(NoArgs)

\* a handler that prints the exception and lets it out of setup_ntp
SetupRetry_GivesUp ==
    /\ pc = "raised"
    /\ caller = "setup_ntp"
    /\ setupLog' = <<Ev("print", 1)>>
    /\ pc' = "idle"
    /\ caller' = "none"
    /\ setupTries' = 0
    /\ CallOver
    /\ UNCHANGED <<env, state, epoch, connected, rtcval, setupRet, created>>

\* a loop that gives up when its count of calls wraps to 0
SetupRetry_MaxTries ==
    /\ pc = "raised"
    /\ caller = "setup_ntp"
    /\ IF setupTries = 0
       THEN /\ setupLog' = <<Ev("print", 1)>>
            /\ pc' = "idle"
            /\ caller' = "none"
            /\ setupTries' = 0
            /\ CallOver
            /\ UNCHANGED <<env, state, epoch, connected, rtcval, setupRet, created>>
       ELSE /\ setupLog' = <<Ev("print", 1), Ev("sleep", SetupSleep), Ev("sync_time", 0)>>
            /\ setupTries' = (setupTries + 1) % TriesWrap
            /\ SyncTimeEntry(NoArgs)
            /\ UNCHANGED <<caller, setupRet>>

\* lines 160-162 and 156-158: the exception is printed and dropped, then
\* a sleep and the next pass of the loop
SetupRetry ==
    /\ pc = "raised"
    /\ caller = "setup_ntp"
    /\ setupLog' = <<Ev("print", 1), Ev("sleep", SetupSleep), Ev("sync_time", 0)>>
    /\ setupTries' = (setupTries + 1) % TriesWrap
    /\ SyncTimeEntry(NoArgs)
    /\ UNCHANGED <<caller, setupRet>>

\* lines 159 and 163-164: out of the loop with the pair sync_time returned
SetupReturn ==
    /\ pc = "returned"
    /\ caller = "setup_ntp"
    /\ setupLog' = <<Ev("print", 2), Ev("return", 0)>>
    /\ setupRet' = [set |-> TRUE, now |-> outcome.now, next_sync |-> outcome.next_sync]
    /\ pc' = "idle"
    /\ caller' = "none"
    /\ setupTries' = 0
    /\ CallOver
    /\ UNCHANGED <<env, state, epoch, connected, rtcval, created>>

----------------------------------------------------------------------------
(* The program *)

Next ==
    \/ CallSyncTime
    \/ EnsureRadio
    \/ ConnectAttempt
    \/ FetchAndSet
    \/ UserDone
    \/ ReleasePins
    \/ SetupNtp
    \/ SetupRetry
    \/ SetupReturn
    \/ RadioLink
    \/ EditSettings

Spec == Init /\ [][Next]_vars

\* a program that only calls setup_ntp, over and over, with the settings it
\* started with
NextSetup ==
    \/ SetupNtp
    \/ EnsureRadio
    \/ ConnectAttempt
    \/ FetchAndSet
    \/ SetupRetry
    \/ SetupReturn
    \/ RadioLink

\* the interpreter runs one thread: a call that has a next statement
\* executes it
FairSetup ==
    /\ Init
    /\ [][NextSetup]_vars
    /\ WF_vars(EnsureRadio)
    /\ WF_vars(ConnectAttempt)
    /\ WF_vars(FetchAndSet)
    /\ WF_vars(SetupRetry)
    /\ WF_vars(SetupReturn)

----------------------------------------------------------------------------
(* Properties *)

\* how many entries of the log have one of the given ops
Count(ops) == Cardinality({i \in DOMAIN log : log[i].op \in ops})

Fails == Count({"connect_fail"})
Resets == Count({"reset_ok", "reset_fail"})

\* an unset or empty setting
Empty(x) == x \in {PyNone, PyStr(<<>>)}

\* the minimum year the arguments of the call ask for
C1_RequireYear ==
    IF args.tuning["require_year"] = Absent THEN 2022
    ELSE args.tuning["require_year"].v

\* C1: sync_time writes the hardware clock only after the year fetched in
\* the same call passed the check year >= require_year (2022 unless tuning
\* overrides it); a fetched year below require_year makes the call fail with
\* the validation error and leaves the hardware clock as it was before the
\* call.
C1_ClockWrittenOnlyAfterCheck ==
    /\ \A i \in DOMAIN log :
        log[i].op = "rtc_write" =>
            \E j \in 1..(i - 1) :
                /\ log[j].op = "fetch"
                /\ log[j].arg = log[i].arg
                /\ log[j].arg >= C1_RequireYear
    /\ rtcval /= rtcAtCall =>
        \E i \in DOMAIN log : log[i].op = "rtc_write" /\ log[i].arg = rtcval
    /\ \A j \in DOMAIN log :
        (log[j].op = "fetch" /\ log[j].arg < C1_RequireYear) =>
            /\ pc = "raised"
            /\ outcome.kind = "ValidationError"
            /\ rtcval = rtcAtCall
            /\ Count({"rtc_write"}) = 0

\* C1 witness: require_year=2030, the server answers 2025, the call failed
\* and the clock still holds the 2022 an earlier call set
C1_Witness ==
    /\ pc = "raised"
    /\ outcome.kind = "ValidationError"
    /\ args.tuning["require_year"] = PyInt(2030)
    /\ \E j \in DOMAIN log : log[j].op = "fetch" /\ log[j].arg = 2025
    /\ rtcval = 2022
    /\ rtcAtCall = 2022

C2_CredsMissing ==
    \/ Empty(env["CIRCUITPY_WIFI_SSID"])
    \/ Empty(env["CIRCUITPY_WIFI_PASSWORD"])

\* C2: a sync_time call made while CIRCUITPY_WIFI_SSID or
\* CIRCUITPY_WIFI_PASSWORD is missing or empty fails with the configuration
\* error having done nothing: no handle created, no connect, reset, sleep or
\* fetch, the hardware clock and the cached handles as before the call.
C2_ConfigErrorBeforeAnyAccess ==
    (C2_CredsMissing /\ pc /= "idle") =>
        /\ pc = "raised"
        /\ outcome.kind = "ConfigError"
        /\ log = <<>>
        /\ state = stateAtCall
        /\ rtcval = rtcAtCall

\* C2 witness: the password is empty, the handles were all cached by an
\* earlier call, and the call failed
C2_Witness ==
    /\ env["CIRCUITPY_WIFI_SSID"] = PyStr(<<"w">>)
    /\ env["CIRCUITPY_WIFI_PASSWORD"] = PyStr(<<>>)
    /\ pc = "raised"
    /\ outcome.kind = "ConfigError"
    /\ state.pool /= NoPool
    /\ rtcval = 2025

\* C3: when all retries + 1 connection attempts of a call fail, the last
\* failure leaves the call, reset was invoked exactly retries times, once
\* right after each failure but the last, no time was fetched and the
\* hardware clock was not written.
C3_AllAttemptsFail ==
    (cfg.ok /\ cfg.retries >= 0 /\ Fails = cfg.retries + 1) =>
        /\ pc = "raised"
        /\ outcome.kind = "ConnectError"
        /\ Resets = cfg.retries
        /\ \A i \in DOMAIN log :
            log[i].op = "connect_fail" =>
                IF log[i].arg < cfg.retries
                THEN /\ i < Len(log)
                     /\ log[i + 1].op \in {"reset_ok", "reset_fail"}
                ELSE i = Len(log)
        /\ Count({"ntp", "fetch", "fetch_fail", "rtc_write"}) = 0
        /\ rtcval = rtcAtCall

\* C3 witness: retries = 2, three failed attempts, two resets
C3_Witness ==
    /\ pc = "raised"
    /\ outcome.kind = "ConnectError"
    /\ cfg.retries = 2
    /\ Fails = 3
    /\ Resets = 2

\* C4: release_pins calls deinit on every control line (cs, rdy, rst) that
\* was held, whichever of the deinit calls fail.
C4_EveryHeldPinDeinit ==
    outcome.kind \in {"released", "DeinitError"} =>
        \A i \in 1..Len(Pins) :
            stateAtCall[Pins[i]] /= 0 =>
                \E k \in DOMAIN log :
                    log[k].op \in {"deinit_ok", "deinit_fail"} /\ log[k].arg = i

\* C5: after release_pins, returned or raised, spi, cs, rdy, rst, esp and
\* pool are all unset.
C5_AllHandlesUnset ==
    outcome.kind \in {"released", "DeinitError"} =>
        /\ state.spi = 0
        /\ state.cs = 0
        /\ state.rdy = 0
        /\ state.rst = 0
        /\ state.esp.id = 0
        /\ state.pool.id = 0

\* C5 witness: every handle was cached, a deinit raised, nothing is cached
C5_Witness ==
    /\ outcome.kind = "DeinitError"
    /\ stateAtCall.pool /= NoPool
    /\ stateAtCall.spi /= 0
    /\ state = NoState

\* C6: once release_pins was called, a sync_time call that reaches the
\* connection uses only handles acquired after the last release_pins (the
\* radio built from such spi, cs, rdy and rst, the pool from such a radio),
\* and a call that began with nothing cached acquired all six before it.
C6_HandlesRecreated ==
    (epoch > 0 /\ pc \in {"connect", "fetch", "returned"}) =>
        /\ state.spi = epoch + 1
        /\ state.cs = epoch + 1
        /\ state.rdy = epoch + 1
        /\ state.rst = epoch + 1
        /\ state.esp = [id |-> epoch + 1, spi |-> epoch + 1, cs |-> epoch + 1,
                        rdy |-> epoch + 1, rst |-> epoch + 1]
        /\ state.pool = [id |-> epoch + 1, esp |-> epoch + 1]
        /\ stateAtCall = NoState =>
            /\ Len(log) >= Len(Kinds)
            /\ \A i \in 1..Len(Kinds) : log[i] = Ev(Kinds[i], epoch + 1)

\* C6 witness: after a release_pins the call acquired all six and connects
C6_Witness ==
    /\ epoch = 1
    /\ pc = "connect"
    /\ stateAtCall = NoState
    /\ Len(log) = Len(Kinds)
    /\ state.pool = [id |-> 2, esp |-> 2]

\* C7: setup_ntp drops every failure of sync_time, sleeps 1 second and calls
\* sync_time() again with no arguments; it returns only right after a call
\* that succeeded, with the (now, next_sync) of that call.
C7_SetupNtpRetriesUntilSuccess ==
    [][/\ (caller = "setup_ntp" /\ pc = "raised") =>
            /\ caller' = "setup_ntp"
            /\ pc' \in {"ensure", "raised"}
            /\ args' = NoArgs
            /\ setupLog' = <<Ev("print", 1), Ev("sleep", 10), Ev("sync_time", 0)>>
            /\ ~setupRet'.set
       /\ (caller = "setup_ntp" /\ caller' /= "setup_ntp") =>
            /\ pc = "returned"
            /\ outcome.kind = "ok"
            /\ setupRet' = [set |-> TRUE, now |-> outcome.now,
                            next_sync |-> outcome.next_sync]
       /\ (caller = "setup_ntp" /\ pc = "returned") => outcome.kind = "ok"
      ]_vars

\* C7 witness: setup_ntp dropped a failure, slept, called again, and that
\* call succeeded: it is about to return
C7_Witness ==
    /\ caller = "setup_ntp"
    /\ pc = "returned"
    /\ outcome.kind = "ok"
    /\ setupLog = <<Ev("print", 1), Ev("sleep", 10), Ev("sync_time", 0)>>

\* C8: when the first k attempts of a call fail and attempt k + 1 succeeds,
\* 0 <= k <= retries, the connection phase ends well, reset was invoked
\* exactly k times, the call goes on to the fetch and, the fetched year
\* being valid, succeeds.
C8_RetryThenConnect ==
    \A i \in DOMAIN log :
        log[i].op \in {"connect_ok", "is_connected"} =>
            /\ Fails <= cfg.retries
            /\ log[i].arg = Fails
            /\ Resets = Fails
            /\ pc \in {"fetch", "returned", "raised"}
            /\ pc = "raised" => outcome.kind \in {"FetchError", "ValidationError"}
            /\ \A j \in DOMAIN log :
                (log[j].op = "fetch" /\ log[j].arg >= C1_RequireYear) =>
                    /\ pc = "returned"
                    /\ outcome.kind = "ok"
                    /\ outcome.now = log[j].arg
                    /\ rtcval = log[j].arg

\* C8 witness: retries = 2, two failures, the third attempt connects, the
\* call succeeded
C8_Witness ==
    /\ pc = "returned"
    /\ outcome.kind = "ok"
    /\ cfg.retries = 2
    /\ Fails = 2
    /\ Resets = 2
    /\ \E i \in DOMAIN log : log[i] = Ev("connect_ok", 2)

\* the four options of C9: tuning key, setting, default, number type
C9_Options ==
    {[key |-> "timeout", env |-> "NTP_TIMEOUT", default |-> 50, isFloat |-> TRUE],
     [key |-> "retries", env |-> "NTP_RETRIES", default |-> 2, isFloat |-> FALSE],
     [key |-> "retry_delay", env |-> "NTP_DELAY_S", default |-> 10, isFloat |-> TRUE],
     [key |-> "cache_seconds", env |-> "NTP_CACHE_SECONDS", default |-> 0,
      isFloat |-> FALSE]}

C9_Number(o, x) == IF o.isFloat THEN float(x) ELSE int(x)

\* C9 as stated: the tuning value when the key is supplied, otherwise the
\* setting when it is set (to anything but the empty text), otherwise the
\* default.
C9_EnvWheneverSet ==
    cfg.ok =>
        \A o \in C9_Options :
            LET want == IF args.tuning[o.key] /= Absent
                        THEN C9_Number(o, args.tuning[o.key])
                        ELSE IF ~Empty(env[o.env])
                             THEN C9_Number(o, env[o.env])
                             ELSE Ok(o.default)
            IN want.ok /\ cfg[o.key] = want.v

\* C9 (amended): the tuning value when the key is supplied, otherwise the
\* setting when it is set to a non-empty text that reads as a number of the
\* option's type, otherwise (unset, empty, unreadable) the default.
C9_Precedence ==
    cfg.ok =>
        \A o \in C9_Options :
            LET want == IF args.tuning[o.key] /= Absent
                        THEN C9_Number(o, args.tuning[o.key])
                        ELSE IF ~Empty(env[o.env]) /\ C9_Number(o, env[o.env]).ok
                             THEN C9_Number(o, env[o.env])
                             ELSE Ok(o.default)
            IN want.ok /\ cfg[o.key] = want.v

\* C9 witness: timeout from tuning over a set NTP_TIMEOUT, retries from
\* NTP_RETRIES, retry_delay from the default, an unreadable
\* NTP_CACHE_SECONDS
C9_Witness ==
    /\ cfg.ok
    /\ args.tuning["timeout"] = PyFloat(25)
    /\ env["NTP_TIMEOUT"] = PyStr(<<"3">>)
    /\ cfg.timeout = 25
    /\ args.tuning["retries"] = Absent
    /\ env["NTP_RETRIES"] = PyStr(<<"3">>)
    /\ cfg.retries = 3
    /\ args.tuning["retry_delay"] = Absent
    /\ env["NTP_DELAY_S"] = PyNone
    /\ cfg.retry_delay = 10
    /\ args.tuning["cache_seconds"] = Absent
    /\ env["NTP_CACHE_SECONDS"] = PyStr(<<"x">>)
    /\ cfg.cache_seconds = 0

\* the number a setting holds, 0 when it holds none
C10_ValueOr0(x) == IF ~Empty(x) /\ float(x).ok THEN float(x).v ELSE 0

\* C10: the tz_offset given to the client is (the tz_offset argument when
\* given, 0 included, otherwise the NTP_TZ value or 0) + (the NTP_DST value
\* or 0).
C10_TzOffset ==
    cfg.ok =>
        cfg.tz_offset =
            (IF args.tz_offset /= PyNone
             THEN (IF args.tz_offset.t = "int" THEN 10 * args.tz_offset.v
                   ELSE args.tz_offset.v)
             ELSE C10_ValueOr0(env["NTP_TZ"]))
            + C10_ValueOr0(env["NTP_DST"])

\* C10 witness: tz_offset=0 given while NTP_TZ is -5 and NTP_DST is 1
C10_Witness ==
    /\ cfg.ok
    /\ args.tz_offset = PyInt(0)
    /\ env["NTP_TZ"] = PyStr(<<"-", "5">>)
    /\ env["NTP_DST"] = PyStr(<<"1">>)
    /\ cfg.tz_offset = 10

\* the interval the settings ask for: NTP_INTERVAL, 0 when it is unset
C11_Interval ==
    IF env["NTP_INTERVAL"].t = "int" THEN env["NTP_INTERVAL"].v ELSE 0

\* C11: on every successful sync_time call next_sync is None (-1 here) when
\* NTP_INTERVAL is 0 or unset, and is the wall-clock time read during the
\* call plus NTP_INTERVAL when that is a positive integer; a next_sync is
\* there only when the interval is strictly positive.
C11_NextSync ==
    (pc = "returned" /\ outcome.kind = "ok") =>
        IF C11_Interval > 0
        THEN /\ Count({"time"}) = 1
             /\ log[Len(log)].op = "time"
             /\ outcome.next_sync = log[Len(log)].arg + C11_Interval
        ELSE /\ Count({"time"}) = 0
             /\ outcome.next_sync = 0 - 1

\* C11 witness: NTP_INTERVAL = 60, time.time() = 2000, next_sync = 2060
C11_Witness ==
    /\ pc = "returned"
    /\ outcome.kind = "ok"
    /\ env["NTP_INTERVAL"] = PyInt(60)
    /\ log[Len(log)] = Ev("time", 2000)
    /\ outcome.next_sync = 2060

\* the running sync_time call is past its _ensure_radio() of line 109
PastEnsureRadio ==
    \/ pc \in {"connect", "fetch", "returned"}
    \/ pc = "raised" /\ outcome.kind \in {"ConnectError", "FetchError", "ValidationError"}

\* C12: between two release_pins calls the radio handle and the socket pool
\* are each created at most once, and every sync_time call that starts with
\* them cached goes on with those same two objects and creates neither.
C12_RadioAndPoolOnce ==
    /\ created["esp"] <= 1
    /\ created["pool"] <= 1
    /\ PastEnsureRadio =>
        /\ state.esp /= NoEsp
        /\ state.pool /= NoPool
        /\ stateAtCall.esp /= NoEsp =>
            (state.esp = stateAtCall.esp /\ Count({"esp"}) = 0)
        /\ stateAtCall.pool /= NoPool =>
            (state.pool = stateAtCall.pool /\ Count({"pool"}) = 0)

\* C12 witness: a call that found both cached is at its fetch with them
C12_Witness ==
    /\ pc = "fetch"
    /\ stateAtCall.esp /= NoEsp
    /\ stateAtCall.pool /= NoPool
    /\ state.esp = stateAtCall.esp
    /\ state.pool = stateAtCall.pool
    /\ created["esp"] = 1
    /\ created["pool"] = 1

\* C13: whatever integer the effective retries is, negative ones included,
\* a sync_time call builds the NTP client and fetches only after the radio
\* was seen connected or a connect attempt returned in that same call; the
\* fetch is never reached with no connection attempt at all.
C13_FetchOnlyAfterConnection ==
    \A i \in DOMAIN log :
        log[i].op \in {"ntp", "fetch", "fetch_fail"} =>
            \E j \in 1..(i - 1) : log[j].op \in {"is_connected", "connect_ok"}

\* what one pass of the connect loop logs first
AttemptOps == {"is_connected", "connect_ok", "connect_fail"}

\* the connection attempts the running call has made
Attempts == Count(AttemptOps)

\* C14: with retries >= 0 a call makes at most retries + 1 connection
\* attempts and waits retry_delay at most retries times: exactly once after
\* each failed attempt but the last, after the reset and before the next
\* attempt; after that the call is at its fetch or has failed, and never
\* makes a further pass of the loop.
C14_ConnectPhaseBounded ==
    (cfg.ok /\ cfg.retries >= 0) =>
        /\ Attempts <= cfg.retries + 1
        /\ Count({"sleep"}) <= cfg.retries
        /\ \A i \in DOMAIN log :
            log[i].op \in AttemptOps => log[i].arg <= cfg.retries
        /\ \A i \in DOMAIN log :
            (log[i].op = "connect_fail" /\ log[i].arg < cfg.retries) =>
                /\ i + 2 <= Len(log)
                /\ log[i + 1].op \in {"reset_ok", "reset_fail"}
                /\ log[i + 2] = Ev("sleep", cfg.retry_delay)
        /\ \A i \in DOMAIN log :
            log[i].op = "sleep" =>
                /\ i > 2
                /\ log[i - 1].op \in {"reset_ok", "reset_fail"}
                /\ log[i - 2].op = "connect_fail"
                /\ log[i - 2].arg < cfg.retries
                /\ IF i < Len(log)
                   THEN /\ log[i + 1].op \in AttemptOps
                        /\ log[i + 1].arg = log[i - 2].arg + 1
                   ELSE pc = "connect" /\ attempt = log[i - 2].arg + 1
        /\ pc = "connect" => (attempt = Attempts /\ attempt <= cfg.retries)
        /\ Attempts = cfg.retries + 1 => pc \in {"fetch", "returned", "raised"}

\* C14 witness: retries = 2, two failures each with its reset and its wait,
\* the third attempt connected and the call is at its fetch
C14_Witness ==
    /\ pc = "fetch"
    /\ cfg.retries = 2
    /\ Attempts = 3
    /\ Count({"sleep"}) = 2
    /\ log[Len(log)] = Ev("connect_ok", 2)

\* C15: a radio reset that fails after a failed attempt that is not the last
\* is swallowed: the call still waits retry_delay, still makes the next
\* connection attempt, and the reset's failure is never what the caller gets.
C15_ResetFailureSwallowed ==
    /\ outcome.kind /= "ResetError"
    /\ \A i \in DOMAIN log :
        log[i].op = "reset_fail" =>
            /\ i > 1
            /\ log[i - 1] = Ev("connect_fail", log[i].arg)
            /\ log[i].arg < cfg.retries
            /\ i < Len(log)
            /\ log[i + 1] = Ev("sleep", cfg.retry_delay)
            /\ IF i + 1 < Len(log)
               THEN /\ log[i + 2].op \in AttemptOps
                    /\ log[i + 2].arg = log[i].arg + 1
               ELSE pc = "connect" /\ attempt = log[i].arg + 1

\* C15 witness: the reset after the first failed attempt failed, the call
\* waited and its second attempt connected
C15_Witness ==
    /\ Len(log) >= 4
    /\ \E i \in 1..(Len(log) - 3) :
        /\ log[i] = Ev("connect_fail", 0)
        /\ log[i + 1] = Ev("reset_fail", 0)
        /\ log[i + 2].op = "sleep"
        /\ log[i + 3] = Ev("connect_ok", 1)

\* C16: an attempt on which the radio reports that it is connected succeeds
\* at once: connect is not invoked on that attempt and the loop ends there;
\* when that is the first attempt, the call does no connect, no reset and no
\* retry wait before it fetches.
C16_ConnectedSkipsConnect ==
    \A i \in DOMAIN log :
        log[i].op = "is_connected" =>
            /\ \A j \in DOMAIN log :
                log[j].op \in {"connect_ok", "connect_fail"} =>
                    (j < i /\ log[j].arg < log[i].arg)
            /\ \A j \in DOMAIN log :
                log[j].op \in {"reset_ok", "reset_fail", "sleep"} => j < i
            /\ Count({"is_connected"}) = 1
            /\ pc \in {"fetch", "returned", "raised"}
            /\ log[i].arg = 0 =>
                Count({"connect_ok", "connect_fail", "reset_ok",
                       "reset_fail", "sleep"}) = 0

\* C16 witness: a call that found the radio and the pool cached and the
\* radio connected on its first attempt went on to a successful fetch
C16_Witness ==
    /\ pc = "returned"
    /\ outcome.kind = "ok"
    /\ log[1] = Ev("is_connected", 0)
    /\ log[2].op = "ntp"

\* C17: when building the NTP client or fetching the time fails after the
\* connection phase went well, that failure leaves sync_time as it is and
\* the fetch is not tried again, the hardware clock is not written, and the
\* cached radio handle and socket pool stay set for the next call.
C17_FetchFailurePropagates ==
    Count({"fetch_fail"}) > 0 =>
        /\ pc = "raised"
        /\ outcome.kind = "FetchError"
        /\ Count({"ntp"}) = 1
        /\ Count({"fetch_fail"}) = 1
        /\ log[Len(log)].op = "fetch_fail"
        /\ Count({"fetch", "rtc_write", "time"}) = 0
        /\ rtcval = rtcAtCall
        /\ state.esp /= NoEsp
        /\ state.pool /= NoPool
        /\ created["esp"] = 1
        /\ created["pool"] = 1

\* C17 witness: the radio connected on the first attempt, the fetch failed,
\* the clock holds what it held and the radio and the pool are cached
C17_Witness ==
    /\ pc = "raised"
    /\ outcome.kind = "FetchError"
    /\ \E i \in DOMAIN log : log[i] = Ev("connect_ok", 0)
    /\ rtcval = rtcAtCall
    /\ state.esp /= NoEsp
    /\ state.pool /= NoPool

\* the bus and the three control lines
C19_Lines == {"spi", "cs", "rdy", "rst"}

\* C19: between two release_pins calls each of the SPI bus and the three
\* control lines is created at most once, also across sync_time calls in
\* which _ensure_radio failed partway: a handle that an earlier call, failed
\* or not, left cached is the one the call goes on with, and is not
\* acquired again.
C19_LinesOnce ==
    \A k \in C19_Lines :
        /\ created[k] <= 1
        /\ created[k] = 1 <=> state[k] /= 0
        /\ (pc /= "idle" /\ stateAtCall[k] /= 0) =>
            (state[k] = stateAtCall[k] /\ Count({k}) = 0)

\* C19 witness: an earlier call failed after it had the bus and cs; this
\* call acquired rdy, rst, the radio and the pool only, and is connecting
C19_Witness ==
    /\ pc = "connect"
    /\ stateAtCall.spi /= 0
    /\ stateAtCall.cs /= 0
    /\ stateAtCall.rdy = 0
    /\ log[1].op = "rdy"
    /\ Count({"spi", "cs"}) = 0
    /\ \A k \in C19_Lines : created[k] = 1

\* C18: setup_ntp returns when, and only when, a sync_time() call it makes
\* succeeds: once a call has succeeded setup_ntp returns; it is left on no
\* other way; while the credentials are missing every call fails and
\* setup_ntp never returns; and after every failed call it makes one more,
\* with no limit on their number.
C18_SetupNtpTermination ==
    /\ (caller = "setup_ntp" /\ pc = "returned") ~> setupRet.set
    /\ [][(caller = "setup_ntp" /\ caller' /= "setup_ntp") =>
            (pc = "returned" /\ outcome.kind = "ok" /\ setupRet'.set)]_vars
    /\ []((caller = "setup_ntp" /\ C2_CredsMissing) =>
            [](caller = "setup_ntp" /\ ~setupRet.set))
    /\ \A n \in 0..(TriesWrap - 1) :
        (caller = "setup_ntp" /\ pc = "raised" /\ setupTries = n) ~>
            (caller = "setup_ntp" /\ setupTries = (n + 1) % TriesWrap)

\* C18 witness: the credentials are missing and setup_ntp, still running,
\* has made so many failed calls that their count wrapped
C18_Witness ==
    /\ caller = "setup_ntp"
    /\ C2_CredsMissing
    /\ pc = "raised"
    /\ outcome.kind = "ConfigError"
    /\ setupTries = 0
    /\ setupLog[1] = Ev("print", 1)

====
